---- MODULE Spec2Model ----
(***************************************************************************)
(* The inventory repository (inventoryRepositoryPostgres) and the menu     *)
(* service (menuService) of frappuccino, as state machines.                *)
(*                                                                         *)
(* The inventory table lives in PostgreSQL.  Each repository method sends  *)
(* the SQL text written in the source; the table's constraints (unique     *)
(* name, CHECK quantity >= 0, enum unit, serial id) are the schema's, and  *)
(* the schema is not among the source files: those definitions follow the  *)
(* data model section of the specification.                                *)
(*                                                                         *)
(* Errors are strings: "nil", a domain error by its Go name, a *pq.Error   *)
(* by its SQLSTATE code, any other error by its Go name.                   *)
(***************************************************************************)
EXTENDS Integers, Sequences, FiniteSets, TLC

VARIABLES table, nextId, last, glo, menu, menuNextId, mlast

vars == <<table, nextId, last, glo, menu, menuNextId, mlast>>

invVars == <<table, nextId, last, glo>>

menuVars == <<menu, menuNextId, mlast>>

(***************************************************************************)
(* Bounds.                                                                 *)
(***************************************************************************)
\* values the serial id column hands out: 1..MaxId
MaxId == 2

\* quantities passed by callers: -1..MaxQty
MaxQty == 1

\* pages asked of GetLeftOvers: 0..MaxPage
MaxPage == 2

\* page sizes asked of GetLeftOvers: 0..MaxPageSize
MaxPageSize == 2

\* length of the id strings handed to the menu service
MaxIdLen == 2

Names == {"milk", "sugar"}

ValidUnits == {"g"}

Units == ValidUnits \cup {"cup"}

Quantities == (-1)..MaxQty

CategoryLists == {<<>>, <<"dairy">>}

Ids == 0..MaxId

(***************************************************************************)
(* Errors.                                                                 *)
(***************************************************************************)
ErrDuplicateInventory == "ErrDuplicateInventory"

ErrNegativeQuantity == "ErrNegativeQuantity"

ErrInvalidEnumTypeInventory == "ErrInvalidEnumTypeInventory"

ErrNoRecord == "ErrNoRecord"

ErrMissingFields == "ErrMissingFields"

ErrInvalidID == "ErrInvalidID"

UniqueViolation == "23505"

CheckViolation == "23514"

InvalidTextRepresentation == "22P02"

UndefinedColumn == "42703"

InvalidRowCountInLimit == "2201W"

InvalidRowCountInOffset == "2201X"

QueryCanceled == "57014"

SqlErrNoRows == "sql.ErrNoRows"

ErrBadConn == "driver.ErrBadConn"

ErrRowsAffected == "errRowsAffected"

\* err.(*pq.Error) succeeds
IsPqError(err) ==
  err \in {UniqueViolation, CheckViolation, InvalidTextRepresentation,
           UndefinedColumn, InvalidRowCountInLimit, InvalidRowCountInOffset,
           QueryCanceled}

(***************************************************************************)
(* The inventory table.                                                    *)
(***************************************************************************)
Row(id, name, quantity, unit, categories) ==
  [id |-> id, name |-> name, quantity |-> quantity, unit |-> unit,
   categories |-> categories]

\* models.Inventory{}
ZeroInventory == Row(0, "", 0, "", <<>>)

NamesOf(t) == {r.name : r \in t}

IdsOf(t) == {r.id : r \in t}

\* the unit column is an enum: a text that is no label of it is refused when
\* the parameter is bound, before the statement runs
EnumAccepts(unit) == unit \in ValidUnits

\* CHECK (quantity >= 0)
CheckAccepts(quantity) == quantity >= 0

\* UNIQUE (name): no row other than the one being written holds the name
UniqueAccepts(t, id, name) == \A r \in t : r.id = id \/ r.name # name

\* INSERT INTO inventory (name, quantity, unit, categories) VALUES ($1..$4).
\* The enum parameter is converted at bind; the row gets its id from the
\* sequence, then the check constraint is tested, then the unique index.
ExecInsert(t, nid, name, quantity, unit, categories) ==
  IF ~EnumAccepts(unit)
  THEN [err |-> InvalidTextRepresentation, table |-> t, nextId |-> nid]
  ELSE IF ~CheckAccepts(quantity)
  THEN [err |-> CheckViolation, table |-> t, nextId |-> nid + 1]
  ELSE IF ~UniqueAccepts(t, nid, name)
  THEN [err |-> UniqueViolation, table |-> t, nextId |-> nid + 1]
  ELSE [err |-> "nil",
        table |-> t \cup {Row(nid, name, quantity, unit, categories)},
        nextId |-> nid + 1]

\* UPDATE inventory SET name=$1, unit=$2, quantity=$3, categories=$4 WHERE id=$5
\* The constraints are tested on the rows the statement writes: none when no
\* row has the id.
ExecUpdate(t, id, name, unit, quantity, categories) ==
  IF ~EnumAccepts(unit)
  THEN [err |-> InvalidTextRepresentation, table |-> t, rowsAffected |-> 0]
  ELSE IF id \notin IdsOf(t)
  THEN [err |-> "nil", table |-> t, rowsAffected |-> 0]
  ELSE IF ~CheckAccepts(quantity)
  THEN [err |-> CheckViolation, table |-> t, rowsAffected |-> 0]
  ELSE IF ~UniqueAccepts(t, id, name)
  THEN [err |-> UniqueViolation, table |-> t, rowsAffected |-> 0]
  ELSE [err |-> "nil",
        table |-> {r \in t : r.id # id}
                    \cup {Row(id, name, quantity, unit, categories)},
        rowsAffected |-> 1]

\* DELETE FROM inventory WHERE id=$1
ExecDelete(t, id) ==
  [err |-> "nil", table |-> {r \in t : r.id # id},
   rowsAffected |-> Cardinality({r \in t : r.id = id})]

\* SELECT * FROM inventory WHERE id = $1, then Scan of the first row
QueryRowByID(t, id) ==
  IF id \in IdsOf(t)
  THEN [err |-> "nil", inv |-> CHOOSE r \in t : r.id = id]
  ELSE [err |-> SqlErrNoRows, inv |-> ZeroInventory]

\* the orders in which a statement without ORDER BY may return the rows
Orderings(t) ==
  {s \in [1..Cardinality(t) -> t] : \A i, j \in 1..Cardinality(t) :
                                       i # j => s[i] # s[j]}

(***************************************************************************)
(* GetLeftOvers: its arithmetic and its page query.                        *)
(***************************************************************************)
Abs(a) == IF a < 0 THEN -a ELSE a

\* Go's a / b on int, b # 0: the quotient truncated toward zero
GoDiv(a, b) ==
  IF (a < 0) = (b < 0) THEN Abs(a) \div Abs(b) ELSE -(Abs(a) \div Abs(b))

\* offset := (page - 1) * pageSize
Offset(page, pageSize) == (page - 1) * pageSize

\* totalItems / pageSize, the quotient rounded down
TotalPagesMutFloor(totalItems, pageSize) == GoDiv(totalItems, pageSize)

\* totalPages := (totalItems + pageSize - 1) / pageSize, pageSize # 0
TotalPages(totalItems, pageSize) == GoDiv(totalItems + pageSize - 1, pageSize)

SortColumns == {"name", "quantity", "price"}

\* the columns of inventory a leftover listing can be ordered by
Columns == {"name", "quantity"}

NameOrder == <<"milk", "sugar">>

NameRank(name) == CHOOSE i \in 1..Len(NameOrder) : NameOrder[i] = name

SortKey(r, col) == IF col = "name" THEN NameRank(r.name) ELSE r.quantity

\* ORDER BY col DESC: rows with equal keys come in any order
SortedDesc(t, col) ==
  {s \in Orderings(t) : \A i, j \in 1..Cardinality(t) :
                           i < j => SortKey(s[i], col) >= SortKey(s[j], col)}

\* models.InventoryLeftOverItem, scanned from SELECT name, quantity
LeftOver(r) == [name |-> r.name, quantity |-> r.quantity]

Min(a, b) == IF a < b THEN a ELSE b

\* LIMIT limit OFFSET offset over the ordered rows s
PageOf(s, limit, offset) ==
  [i \in 1..Min(limit, Len(s) - offset) |-> LeftOver(s[offset + i])]

\* SELECT name, quantity FROM inventory ORDER BY <col> DESC LIMIT $1 OFFSET $2:
\* every result the statement may give
SelectLeftOvers(t, col, limit, offset) ==
  IF col \notin Columns THEN {[err |-> UndefinedColumn, rows |-> <<>>]}
  ELSE IF offset < 0 THEN {[err |-> InvalidRowCountInOffset, rows |-> <<>>]}
  ELSE IF limit < 0 THEN {[err |-> InvalidRowCountInLimit, rows |-> <<>>]}
  ELSE {[err |-> "nil", rows |-> PageOf(s, limit, offset)] :
          s \in SortedDesc(t, col)}

(***************************************************************************)
(* The repository's translation of what the driver returns.                *)
(***************************************************************************)
\* InsertResult without its case "23505"
InsertResultMutNoDuplicateCase(err) ==
  IF err # "nil"
  THEN IF IsPqError(err) /\ err = CheckViolation THEN ErrNegativeQuantity
       ELSE IF IsPqError(err) /\ err = InvalidTextRepresentation
       THEN ErrInvalidEnumTypeInventory
       ELSE err
  ELSE "nil"

\* InsertResult with the results of "23505" and "23514" exchanged
InsertResultMutSwapped(err) ==
  IF err # "nil"
  THEN IF IsPqError(err) /\ err = UniqueViolation THEN ErrNegativeQuantity
       ELSE IF IsPqError(err) /\ err = CheckViolation
       THEN ErrDuplicateInventory
       ELSE IF IsPqError(err) /\ err = InvalidTextRepresentation
       THEN ErrInvalidEnumTypeInventory
       ELSE err
  ELSE "nil"

\* Insert, after Exec
InsertResult(err) ==
  IF err # "nil"
  THEN IF IsPqError(err) /\ err = UniqueViolation THEN ErrDuplicateInventory
       ELSE IF IsPqError(err) /\ err = CheckViolation
       THEN ErrNegativeQuantity
       ELSE IF IsPqError(err) /\ err = InvalidTextRepresentation
       THEN ErrInvalidEnumTypeInventory
       ELSE err
  ELSE "nil"

\* RetrieveByIDResult without its errors.Is(err, sql.ErrNoRows) case
RetrieveByIDResultMutKeepsNoRows(q) ==
  IF q.err # "nil"
  THEN [inv |-> ZeroInventory, err |-> q.err]
  ELSE [inv |-> q.inv, err |-> "nil"]

\* RetrieveByID, after QueryRow(...).Scan
RetrieveByIDResult(q) ==
  IF q.err # "nil"
  THEN IF q.err = SqlErrNoRows
       THEN [inv |-> ZeroInventory, err |-> ErrNoRecord]
       ELSE [inv |-> ZeroInventory, err |-> q.err]
  ELSE [inv |-> q.inv, err |-> "nil"]

\* UpdateResult without its test of rowsAffected
UpdateResultMutNoRowsCheck(execErr, rowsAffected, raErr) ==
  IF execErr # "nil"
  THEN IF execErr = SqlErrNoRows THEN ErrNoRecord
       ELSE IF IsPqError(execErr) /\ execErr = UniqueViolation
       THEN ErrDuplicateInventory
       ELSE IF IsPqError(execErr) /\ execErr = CheckViolation
       THEN ErrNegativeQuantity
       ELSE IF IsPqError(execErr) /\ execErr = InvalidTextRepresentation
       THEN ErrInvalidEnumTypeInventory
       ELSE execErr
  ELSE raErr

\* UpdateResult without its case "23514"
UpdateResultMutNoCheckCase(execErr, rowsAffected, raErr) ==
  IF execErr # "nil"
  THEN IF execErr = SqlErrNoRows THEN ErrNoRecord
       ELSE IF IsPqError(execErr) /\ execErr = UniqueViolation
       THEN ErrDuplicateInventory
       ELSE IF IsPqError(execErr) /\ execErr = InvalidTextRepresentation
       THEN ErrInvalidEnumTypeInventory
       ELSE execErr
  ELSE IF rowsAffected = 0 THEN ErrNoRecord
  ELSE raErr

\* Update, after Exec: execErr is Exec's error; rowsAffected and raErr are
\* what result.RowsAffected() returns
UpdateResult(execErr, rowsAffected, raErr) ==
  IF execErr # "nil"
  THEN IF execErr = SqlErrNoRows THEN ErrNoRecord
       ELSE IF IsPqError(execErr) /\ execErr = UniqueViolation
       THEN ErrDuplicateInventory
       ELSE IF IsPqError(execErr) /\ execErr = CheckViolation
       THEN ErrNegativeQuantity
       ELSE IF IsPqError(execErr) /\ execErr = InvalidTextRepresentation
       THEN ErrInvalidEnumTypeInventory
       ELSE execErr
  ELSE IF rowsAffected = 0 THEN ErrNoRecord
  ELSE raErr

\* Delete, after Exec
DeleteResult(execErr, rowsAffected, raErr) ==
  IF execErr # "nil" THEN execErr
  ELSE IF rowsAffected = 0 THEN ErrNoRecord
  ELSE raErr

(***************************************************************************)
(* The repository's methods.  fault is what the driver reports instead of  *)
(* running the statement ("none": the statement runs); raErr is the error  *)
(* of result.RowsAffected().                                               *)
(***************************************************************************)
ExecFaults == {ErrBadConn, QueryCanceled}

Call(op, id, name, unit, quantity, categories) ==
  [op |-> op, id |-> id, name |-> name, unit |-> unit, quantity |-> quantity,
   categories |-> categories, err |-> "nil", inv |-> ZeroInventory,
   all |-> <<>>, execErr |-> "nil", raErr |-> "nil"]

NoCall == Call("none", 0, "", "", 0, <<>>)

\* what RowsAffected() may return: the count, or an error with the count or 0
RowsAffectedCounts(n, raErr) == IF raErr = "nil" THEN {n} ELSE {0, n}

Insert(name, unit, quantity, categories, fault) ==
  /\ nextId <= MaxId
  /\ LET r == IF fault = "none"
              THEN ExecInsert(table, nextId, name, quantity, unit, categories)
              ELSE [err |-> fault, table |-> table, nextId |-> nextId]
     IN /\ table' = r.table
        /\ nextId' = r.nextId
        /\ last' = [Call("Insert", 0, name, unit, quantity, categories)
                      EXCEPT !.execErr = r.err, !.err = InsertResult(r.err)]
  /\ UNCHANGED <<glo, menuVars>>

RetrieveByID(id, fault) ==
  /\ LET q == IF fault = "none" THEN QueryRowByID(table, id)
              ELSE [err |-> fault, inv |-> ZeroInventory]
         res == RetrieveByIDResult(q)
     IN last' = [Call("RetrieveByID", id, "", "", 0, <<>>)
                   EXCEPT !.execErr = q.err, !.err = res.err, !.inv = res.inv]
  /\ UNCHANGED <<table, nextId, glo, menuVars>>

RetrieveAll(fault) ==
  /\ IF fault = "none"
     THEN \E rows \in Orderings(table) :
            last' = [Call("RetrieveAll", 0, "", "", 0, <<>>)
                       EXCEPT !.all = rows]
     ELSE last' = [Call("RetrieveAll", 0, "", "", 0, <<>>)
                     EXCEPT !.execErr = fault, !.err = fault]
  /\ UNCHANGED <<table, nextId, glo, menuVars>>

Update(id, name, unit, quantity, categories, fault, raErr) ==
  /\ LET r == IF fault = "none"
              THEN ExecUpdate(table, id, name, unit, quantity, categories)
              ELSE [err |-> fault, table |-> table, rowsAffected |-> 0]
     IN /\ table' = r.table
        /\ \E n \in RowsAffectedCounts(r.rowsAffected, raErr) :
             last' = [Call("Update", id, name, unit, quantity, categories)
                        EXCEPT !.execErr = r.err,
                               !.raErr = IF r.err = "nil" THEN raErr ELSE "nil",
                               !.err = UpdateResult(r.err, n, raErr)]
  /\ UNCHANGED <<nextId, glo, menuVars>>

Delete(id, fault, raErr) ==
  /\ LET r == IF fault = "none" THEN ExecDelete(table, id)
              ELSE [err |-> fault, table |-> table, rowsAffected |-> 0]
     IN /\ table' = r.table
        /\ \E n \in RowsAffectedCounts(r.rowsAffected, raErr) :
             last' = [Call("Delete", id, "", "", 0, <<>>)
                        EXCEPT !.execErr = r.err,
                               !.raErr = IF r.err = "nil" THEN raErr ELSE "nil",
                               !.err = DeleteResult(r.err, n, raErr)]
  /\ UNCHANGED <<nextId, glo, menuVars>>

\* a GetLeftOvers call: its arguments, its locals, what it returned.
\* pc: "idle" (never called), "counted" (between its two statements),
\* "returned", "panicked".  countTable is the table the COUNT(*) saw.
GloCall(pc, sortColumn, page, pageSize) ==
  [pc |-> pc, sortColumn |-> sortColumn, page |-> page, pageSize |-> pageSize,
   offset |-> Offset(page, pageSize), totalItems |-> 0, totalPages |-> 0,
   rows |-> <<>>, err |-> "nil", countTable |-> {}]

GloIdle == [GloCall("idle", "", 1, 1) EXCEPT !.offset = 0]

\* lines 146-153: the offset, SELECT COUNT(*), the total-page count
GloCount(sortColumn, page, pageSize, fault) ==
  /\ glo.pc # "counted"
  /\ glo' = IF fault # "none"
            THEN [GloCall("returned", sortColumn, page, pageSize)
                    EXCEPT !.err = fault]
            ELSE IF pageSize = 0
            THEN [GloCall("panicked", sortColumn, page, pageSize)
                    EXCEPT !.totalItems = Cardinality(table)]
            ELSE [GloCall("counted", sortColumn, page, pageSize)
                    EXCEPT !.totalItems = Cardinality(table),
                           !.totalPages =
                              TotalPages(Cardinality(table), pageSize),
                           !.countTable = table]
  /\ UNCHANGED <<table, nextId, last, menuVars>>

\* lines 155-172: the page query and the scan of its rows
GloQuery(fault) ==
  /\ glo.pc = "counted"
  /\ \E r \in IF fault # "none" THEN {[err |-> fault, rows |-> <<>>]}
              ELSE SelectLeftOvers(table, glo.sortColumn, glo.pageSize,
                                   glo.offset) :
       glo' = [GloCall("returned", glo.sortColumn, glo.page, glo.pageSize)
                 EXCEPT !.err = r.err,
                        !.rows = r.rows,
                        !.totalPages = IF r.err = "nil" THEN glo.totalPages
                                       ELSE 0]
  /\ UNCHANGED <<table, nextId, last, menuVars>>

\* another client's Insert and Delete: their results go to that client
OtherInsert(name, quantity) ==
  /\ nextId <= MaxId
  /\ LET r == ExecInsert(table, nextId, name, quantity, "g", <<>>)
     IN table' = r.table /\ nextId' = r.nextId
  /\ UNCHANGED <<last, glo, menuVars>>

OtherDelete(id) ==
  /\ table' = ExecDelete(table, id).table
  /\ UNCHANGED <<nextId, last, glo, menuVars>>

(***************************************************************************)
(* The menu service.  A menu item carries the fields the validator checks; *)
(* the validator and the menu repository are not among the source files    *)
(* and follow the specification: required fields must be present, and the  *)
(* repository maps each call to one statement on the stored menu.          *)
(***************************************************************************)
MenuNames == {"", "latte", "mocha"}

MenuPrices == {0, 4}

MenuItem(name, price) == [name |-> name, price |-> price]

\* models.MenuItem{}
ZeroMenuItem == MenuItem("", 0)

MenuItems == {MenuItem(n, p) : n \in MenuNames, p \in MenuPrices}

\* a map[string]string: nil, or its field-name-to-message pairs
NilMap == [isNil |-> TRUE, entries |-> {}]

\* models.NewMenuItemValidator(item).Validate(): nil when every required
\* field is present, else the failing fields with their messages
Validate(item) ==
  LET failing == (IF item.name = "" THEN {<<"name", "name is required">>}
                  ELSE {})
                 \cup (IF item.price <= 0
                       THEN {<<"price", "price must be positive">>}
                       ELSE {})
  IN IF failing = {} THEN NilMap ELSE [isNil |-> FALSE, entries |-> failing]

IdChars == {"1", "-", "x"}

Digits == <<"0", "1", "2", "3", "4", "5", "6", "7", "8", "9">>

IsDigit(c) == \E d \in 1..10 : Digits[d] = c

DigitValue(c) == (CHOOSE d \in 1..10 : Digits[d] = c) - 1

RECURSIVE Decimal(_)

\* n = n*10 + int(ch) over the digits of s
Decimal(s) ==
  IF s = <<>> THEN 0
  ELSE Decimal(SubSeq(s, 1, Len(s) - 1)) * 10 + DigitValue(s[Len(s)])

\* strconv.Atoi: an optional sign, then one or more decimal digits
Atoi(s) ==
  IF s = <<>> THEN [ok |-> FALSE, n |-> 0]
  ELSE LET signed == s[1] \in {"-", "+"}
           digits == IF signed THEN Tail(s) ELSE s
       IN IF digits = <<>> \/ \E i \in 1..Len(digits) : ~IsDigit(digits[i])
          THEN [ok |-> FALSE, n |-> 0]
          ELSE [ok |-> TRUE,
                n |-> IF s[1] = "-" THEN -Decimal(digits) ELSE Decimal(digits)]

IdStrings == UNION {[1..n -> IdChars] : n \in 0..MaxIdLen}

MenuIdsOf(m) == {r.id : r \in m}

\* menuRepo.InsertMenuItem
RepoInsertMenuItem(m, nid, item) ==
  [err |-> "nil", menu |-> m \cup {[id |-> nid, item |-> item]},
   nextId |-> nid + 1]

\* menuRepo.RetrieveByID
RepoRetrieveByID(m, id) ==
  IF id \in MenuIdsOf(m)
  THEN [err |-> "nil", item |-> (CHOOSE r \in m : r.id = id).item]
  ELSE [err |-> ErrNoRecord, item |-> ZeroMenuItem]

\* menuRepo.UpdateMenuItem
RepoUpdateMenuItem(m, id, item) ==
  IF id \in MenuIdsOf(m)
  THEN [err |-> "nil",
        menu |-> {r \in m : r.id # id} \cup {[id |-> id, item |-> item]}]
  ELSE [err |-> ErrNoRecord, menu |-> m]

\* menuRepo.Delete
RepoDelete(m, id) ==
  IF id \in MenuIdsOf(m)
  THEN [err |-> "nil", menu |-> {r \in m : r.id # id}]
  ELSE [err |-> ErrNoRecord, menu |-> m]

\* what a service call returned; repoCalled and repoErr record the call it
\* made to the repository, validated whether it ran the validator
MCall(op, id, item) ==
  [op |-> op, id |-> id, item |-> item, errMap |-> NilMap, err |-> "nil",
   result |-> ZeroMenuItem, all |-> <<>>, validated |-> FALSE,
   repoCalled |-> FALSE, repoErr |-> "nil"]

NoMCall == MCall("none", <<>>, ZeroMenuItem)

RepoFaults == {"none", ErrBadConn}

\* ServiceInsertMenu with the repository called whatever the validator says
ServiceInsertMenuMutNoReturn(item, fault) ==
  /\ menuNextId <= MaxId
  /\ LET errMap == Validate(item)
         r == IF fault = "none" THEN RepoInsertMenuItem(menu, menuNextId, item)
              ELSE [err |-> fault, menu |-> menu, nextId |-> menuNextId]
     IN /\ menu' = r.menu
        /\ menuNextId' = r.nextId
        /\ mlast' = [MCall("InsertMenu", <<>>, item)
                       EXCEPT !.validated = TRUE, !.repoCalled = TRUE,
                              !.repoErr = r.err, !.err = r.err]
  /\ UNCHANGED invVars

ServiceInsertMenu(item, fault) ==
  /\ menuNextId <= MaxId
  /\ LET errMap == Validate(item)
         r == IF fault = "none" THEN RepoInsertMenuItem(menu, menuNextId, item)
              ELSE [err |-> fault, menu |-> menu, nextId |-> menuNextId]
     IN IF ~errMap.isNil
        THEN /\ mlast' = [MCall("InsertMenu", <<>>, item)
                            EXCEPT !.validated = TRUE, !.errMap = errMap,
                                   !.err = ErrMissingFields]
             /\ UNCHANGED <<menu, menuNextId>>
        ELSE /\ menu' = r.menu
             /\ menuNextId' = r.nextId
             /\ mlast' = [MCall("InsertMenu", <<>>, item)
                            EXCEPT !.validated = TRUE, !.repoCalled = TRUE,
                                   !.repoErr = r.err, !.err = r.err]
  /\ UNCHANGED invVars

ServiceRetrieveAll(fault) ==
  /\ IF fault = "none"
     THEN \E rows \in Orderings(menu) :
            mlast' = [MCall("RetrieveAll", <<>>, ZeroMenuItem)
                        EXCEPT !.repoCalled = TRUE,
                               !.all = [i \in 1..Len(rows) |-> rows[i].item]]
     ELSE mlast' = [MCall("RetrieveAll", <<>>, ZeroMenuItem)
                      EXCEPT !.repoCalled = TRUE, !.repoErr = fault,
                             !.err = fault]
  /\ UNCHANGED <<menu, menuNextId, invVars>>

ServiceRetrieveByID(id, fault) ==
  /\ LET idInt == Atoi(id)
         r == IF fault = "none" THEN RepoRetrieveByID(menu, idInt.n)
              ELSE [err |-> fault, item |-> ZeroMenuItem]
     IN IF ~idInt.ok
        THEN mlast' = [MCall("RetrieveByID", id, ZeroMenuItem)
                         EXCEPT !.err = ErrInvalidID]
        ELSE mlast' = [MCall("RetrieveByID", id, ZeroMenuItem)
                         EXCEPT !.repoCalled = TRUE, !.repoErr = r.err,
                                !.err = r.err, !.result = r.item]
  /\ UNCHANGED <<menu, menuNextId, invVars>>

\* ServiceUpdate with the fields validated before the id is parsed
ServiceUpdateMutValidateFirst(id, item, fault) ==
  /\ LET idInt == Atoi(id)
         errMap == Validate(item)
         r == IF fault = "none" THEN RepoUpdateMenuItem(menu, idInt.n, item)
              ELSE [err |-> fault, menu |-> menu]
     IN IF ~errMap.isNil
        THEN /\ mlast' = [MCall("Update", id, item)
                            EXCEPT !.validated = TRUE, !.errMap = errMap,
                                   !.err = ErrMissingFields]
             /\ UNCHANGED menu
        ELSE IF ~idInt.ok
        THEN /\ mlast' = [MCall("Update", id, item)
                            EXCEPT !.validated = TRUE, !.err = ErrInvalidID]
             /\ UNCHANGED menu
        ELSE /\ menu' = r.menu
             /\ mlast' = [MCall("Update", id, item)
                            EXCEPT !.validated = TRUE, !.repoCalled = TRUE,
                                   !.repoErr = r.err, !.err = r.err]
  /\ UNCHANGED <<menuNextId, invVars>>

ServiceUpdate(id, item, fault) ==
  /\ LET idInt == Atoi(id)
         errMap == Validate(item)
         r == IF fault = "none" THEN RepoUpdateMenuItem(menu, idInt.n, item)
              ELSE [err |-> fault, menu |-> menu]
     IN IF ~idInt.ok
        THEN /\ mlast' = [MCall("Update", id, item) EXCEPT !.err = ErrInvalidID]
             /\ UNCHANGED menu
        ELSE IF ~errMap.isNil
        THEN /\ mlast' = [MCall("Update", id, item)
                            EXCEPT !.validated = TRUE, !.errMap = errMap,
                                   !.err = ErrMissingFields]
             /\ UNCHANGED menu
        ELSE /\ menu' = r.menu
             /\ mlast' = [MCall("Update", id, item)
                            EXCEPT !.validated = TRUE, !.repoCalled = TRUE,
                                   !.repoErr = r.err, !.err = r.err]
  /\ UNCHANGED <<menuNextId, invVars>>

ServiceDelete(id, fault) ==
  /\ LET idInt == Atoi(id)
         r == IF fault = "none" THEN RepoDelete(menu, idInt.n)
              ELSE [err |-> fault, menu |-> menu]
     IN IF ~idInt.ok
        THEN /\ mlast' = [MCall("Delete", id, ZeroMenuItem)
                            EXCEPT !.err = ErrInvalidID]
             /\ UNCHANGED menu
        ELSE /\ menu' = r.menu
             /\ mlast' = [MCall("Delete", id, ZeroMenuItem)
                            EXCEPT !.repoCalled = TRUE, !.repoErr = r.err,
                                   !.err = r.err]
  /\ UNCHANGED <<menuNextId, invVars>>

Init ==
  /\ table = {}
  /\ nextId = 1
  /\ last = NoCall
  /\ glo = GloIdle
  /\ menu = {}
  /\ menuNextId = 1
  /\ mlast = NoMCall

(***************************************************************************)
(* Spec: one client after another calls the repository with every          *)
(* combination of arguments; the driver reports only what the statements   *)
(* themselves raise.                                                       *)
(***************************************************************************)
DoInsert ==
  \E name \in Names, unit \in Units, quantity \in Quantities,
     categories \in CategoryLists :
    Insert(name, unit, quantity, categories, "none")

DoRetrieveByID == \E id \in Ids : RetrieveByID(id, "none")

DoRetrieveAll == RetrieveAll("none")

DoUpdate ==
  \E id \in Ids, name \in Names, unit \in Units, quantity \in Quantities,
     categories \in CategoryLists :
    Update(id, name, unit, quantity, categories, "none", "nil")

DoDelete == \E id \in Ids : Delete(id, "none", "nil")

Next == DoInsert \/ DoRetrieveByID \/ DoRetrieveAll \/ DoUpdate \/ DoDelete

Spec == Init /\ [][Next]_vars

(***************************************************************************)
(* SpecGlo: a client calls GetLeftOvers while other clients insert and     *)
(* delete.                                                                 *)
(***************************************************************************)
Pages == 0..MaxPage

PageSizes == 0..MaxPageSize

GloFaults == {"none", ErrBadConn}

DoGloCount ==
  \E sortColumn \in SortColumns, page \in Pages, pageSize \in PageSizes,
     fault \in GloFaults :
    GloCount(sortColumn, page, pageSize, fault)

DoGloQuery == \E fault \in GloFaults : GloQuery(fault)

DoOtherInsert ==
  \E name \in Names, quantity \in 0..MaxQty : OtherInsert(name, quantity)

DoOtherDelete == \E id \in 1..MaxId : OtherDelete(id)

NextGlo == DoGloCount \/ DoGloQuery \/ DoOtherInsert \/ DoOtherDelete

SpecGlo == Init /\ [][NextGlo]_vars

(***************************************************************************)
(* SpecFault: the repository's calls when the driver may also fail: Exec   *)
(* or Query report an error of their own, RowsAffected reports an error.   *)
(***************************************************************************)
FaultsOrNone == {"none"} \cup ExecFaults

RowsAffectedErrs == {"nil", ErrRowsAffected}

FInsert ==
  \E name \in Names, unit \in Units, quantity \in Quantities,
     fault \in FaultsOrNone :
    Insert(name, unit, quantity, <<>>, fault)

FRetrieveByID == \E id \in Ids, fault \in FaultsOrNone : RetrieveByID(id, fault)

FRetrieveAll == \E fault \in FaultsOrNone : RetrieveAll(fault)

FUpdate ==
  \E id \in Ids, name \in Names, unit \in Units, quantity \in Quantities,
     fault \in FaultsOrNone, raErr \in RowsAffectedErrs :
    Update(id, name, unit, quantity, <<>>, fault, raErr)

FDelete ==
  \E id \in Ids, fault \in FaultsOrNone, raErr \in RowsAffectedErrs :
    Delete(id, fault, raErr)

NextFault == FInsert \/ FRetrieveByID \/ FRetrieveAll \/ FUpdate \/ FDelete

SpecFault == Init /\ [][NextFault]_vars

(***************************************************************************)
(* SpecMenu: calls of the menu service.                                    *)
(***************************************************************************)
DoServiceInsertMenu ==
  \E item \in MenuItems, fault \in RepoFaults : ServiceInsertMenu(item, fault)

DoServiceRetrieveAll == \E fault \in RepoFaults : ServiceRetrieveAll(fault)

DoServiceRetrieveByID ==
  \E id \in IdStrings, fault \in RepoFaults : ServiceRetrieveByID(id, fault)

DoServiceUpdate ==
  \E id \in IdStrings, item \in MenuItems, fault \in RepoFaults :
    ServiceUpdate(id, item, fault)

DoServiceDelete ==
  \E id \in IdStrings, fault \in RepoFaults : ServiceDelete(id, fault)

NextMenu ==
  \/ DoServiceInsertMenu
  \/ DoServiceRetrieveAll
  \/ DoServiceRetrieveByID
  \/ DoServiceUpdate
  \/ DoServiceDelete

SpecMenu == Init /\ [][NextMenu]_vars

(***************************************************************************)
(* Properties of the inventory repository, under Spec.  In Spec every step *)
(* is one call, and last' is what that call returned: table is the table   *)
(* before the call, table' the table after it.                             *)
(***************************************************************************)

\* C1, as claimed: Insert with a name that a stored record already holds
\* returns ErrDuplicateInventory and leaves the table unchanged, whatever
\* unit, quantity and categories are passed.
C1_DuplicateInsertAlwaysDuplicateError ==
  [][(last'.op = "Insert" /\ last'.name \in NamesOf(table))
       => (last'.err = ErrDuplicateInventory /\ table' = table)]_vars

\* C1, amended: Insert with a name that a stored record already holds leaves
\* the table unchanged; it returns ErrDuplicateInventory when the unit is a
\* label of the enum and the quantity is not negative, whatever the categories.
C1_DuplicateInsert ==
  [][(last'.op = "Insert" /\ last'.name \in NamesOf(table))
       => /\ table' = table
          /\ (last'.unit \in ValidUnits /\ last'.quantity >= 0)
               => last'.err = ErrDuplicateInventory]_vars

C1_Witness ==
  /\ last.op = "Insert"
  /\ last.err = ErrDuplicateInventory
  /\ last.categories # <<>>
  /\ \E r \in table : r.name = last.name /\ r.categories = <<>>

\* C2, as claimed: Insert with a quantity below zero and a name no stored
\* record holds returns ErrNegativeQuantity and adds no record.
C2_NegativeInsertAlwaysNegativeError ==
  [][(last'.op = "Insert" /\ last'.quantity < 0
        /\ last'.name \notin NamesOf(table))
       => (last'.err = ErrNegativeQuantity /\ table' = table)]_vars

\* C2, amended: Insert with a quantity below zero and a name no stored record
\* holds adds no record, and returns ErrNegativeQuantity when the unit is a
\* label of the enum.
C2_NegativeInsert ==
  [][(last'.op = "Insert" /\ last'.quantity < 0
        /\ last'.name \notin NamesOf(table))
       => /\ table' = table
          /\ last'.unit \in ValidUnits => last'.err = ErrNegativeQuantity]_vars

C2_Witness ==
  /\ last.op = "Insert"
  /\ last.err = ErrNegativeQuantity
  /\ last.quantity < 0
  /\ last.name \notin NamesOf(table)
  /\ table # {}

\* C3, as claimed: Update with an id no stored record has returns ErrNoRecord
\* and changes no record, whatever name, unit, quantity and categories are
\* passed, a unit that is no label of the enum included.
C3_UpdateMissingAlwaysNoRecord ==
  [][(last'.op = "Update" /\ last'.id \notin IdsOf(table))
       => (last'.err = ErrNoRecord /\ table' = table)]_vars

\* C3, amended: Update with an id no stored record has changes no record; it
\* returns ErrNoRecord whatever name, quantity and categories are passed when
\* the unit is a label of the enum, and ErrInvalidEnumTypeInventory when the
\* unit is not.
C3_UpdateMissing ==
  [][(last'.op = "Update" /\ last'.id \notin IdsOf(table))
       => /\ table' = table
          /\ last'.err = IF last'.unit \in ValidUnits THEN ErrNoRecord
                         ELSE ErrInvalidEnumTypeInventory]_vars

C3_Witness ==
  /\ last.op = "Update"
  /\ last.err = ErrNoRecord
  /\ last.id \notin IdsOf(table)
  /\ last.quantity < 0
  /\ last.name \in NamesOf(table)

\* C4: RetrieveByID with an id no stored record has returns ErrNoRecord with
\* the zero-value Inventory; with a stored id it returns that record and a nil
\* error; the table is unchanged either way.
C4_RetrieveByID ==
  [][last'.op = "RetrieveByID"
       => /\ table' = table
          /\ last'.id \notin IdsOf(table)
               => (last'.err = ErrNoRecord /\ last'.inv = ZeroInventory)
          /\ last'.id \in IdsOf(table)
               => /\ last'.err = "nil"
                  /\ last'.inv \in table
                  /\ last'.inv.id = last'.id]_vars

C4_Witness ==
  /\ last.op = "RetrieveByID"
  /\ last.err = "nil"
  /\ last.inv \in table
  /\ Cardinality(table) = 2

\* the constraints of the inventory table
NamesDistinct(t) == \A a, b \in t : a.name = b.name => a = b

NoNegativeQuantity(t) == \A r \in t : r.quantity >= 0

\* what the call recorded in c would do to table t if it were applied
BreaksUnique(c, t) ==
  \/ c.op = "Insert" /\ c.name \in NamesOf(t)
  \/ c.op = "Update" /\ c.id \in IdsOf(t)
       /\ \E r \in t : r.id # c.id /\ r.name = c.name

BreaksCheck(c, t) ==
  /\ c.quantity < 0
  /\ c.op = "Insert" \/ (c.op = "Update" /\ c.id \in IdsOf(t))

\* C9, as claimed: every reachable table has distinct names and no negative
\* quantity, and a call that would break one of the two constraints is not
\* applied and ends with the error of a constraint it would break.
C9_ConstraintErrorsOnly ==
  /\ [](NamesDistinct(table) /\ NoNegativeQuantity(table))
  /\ [][(BreaksUnique(last', table) \/ BreaksCheck(last', table))
          => /\ table' = table
             /\ \/ BreaksUnique(last', table)
                     /\ last'.err = ErrDuplicateInventory
                \/ BreaksCheck(last', table)
                     /\ last'.err = ErrNegativeQuantity]_vars

\* C9, amended: every reachable table has distinct names and no negative
\* quantity, and a call that would break one of the two constraints is not
\* applied: it ends with ErrInvalidEnumTypeInventory when its unit is no label
\* of the enum, else with ErrNegativeQuantity when its quantity is negative,
\* else with ErrDuplicateInventory.
C9_Constraints ==
  /\ [](NamesDistinct(table) /\ NoNegativeQuantity(table))
  /\ [][(BreaksUnique(last', table) \/ BreaksCheck(last', table))
          => /\ table' = table
             /\ last'.err =
                  IF last'.unit \notin ValidUnits
                  THEN ErrInvalidEnumTypeInventory
                  ELSE IF last'.quantity < 0 THEN ErrNegativeQuantity
                  ELSE ErrDuplicateInventory]_vars

C9_Witness ==
  /\ last.op = "Update"
  /\ last.err = ErrDuplicateInventory
  /\ last.id \in IdsOf(table)
  /\ \E r \in table : r.id # last.id /\ r.name = last.name

(***************************************************************************)
(* Properties of the error translation when the driver itself may fail,    *)
(* under SpecFault.                                                        *)
(***************************************************************************)
MappedErrors ==
  {UniqueViolation, CheckViolation, InvalidTextRepresentation, SqlErrNoRows}

\* C6: an error of the driver that is none of the four mapped cases reaches
\* the caller as it is, and so does an error of RowsAffected after an Exec
\* that succeeded in Update or Delete.
C6_OtherErrorsUnmodified ==
  last.op \in {"Insert", "RetrieveByID", "RetrieveAll", "Update", "Delete"}
    => /\ last.execErr \notin MappedErrors \cup {"nil"}
            => last.err = last.execErr
       /\ (last.execErr = "nil" /\ last.raErr # "nil")
            => last.err = last.raErr

(***************************************************************************)
(* Properties of GetLeftOvers, under SpecGlo.                              *)
(***************************************************************************)
\* n is the least count of pages of pageSize rows that hold items rows
IsCeiling(n, items, pageSize) ==
  /\ n >= 0
  /\ n * pageSize >= items
  /\ \A m \in 0..(n - 1) : m * pageSize < items

\* C5: for every page and pageSize the call gets past its arithmetic (it
\* never panics), its offset is (page - 1) * pageSize and is not negative, and
\* its totalPages is the least n with n * pageSize >= totalItems.
C5_PaginationArithmetic ==
  glo.pc # "idle"
    => /\ glo.pc # "panicked"
       /\ glo.offset = (glo.page - 1) * glo.pageSize
       /\ glo.offset >= 0
       /\ glo.pc = "counted"
            => IsCeiling(glo.totalPages, glo.totalItems, glo.pageSize)

\* the name and quantity columns of every table the schema admits
LeftOverTables ==
  {t \in SUBSET [name : Names, quantity : 0..MaxQty] : NamesDistinct(t)}

\* the rows and the page count are those of a GetLeftOvers(col, page,
\* pageSize) that saw table t in both of its statements
Describes(rows, pages, t, col, page, pageSize) ==
  /\ IsCeiling(pages, Cardinality(t), pageSize)
  /\ \E r \in SelectLeftOvers(t, col, pageSize, (page - 1) * pageSize) :
       r.err = "nil" /\ r.rows = rows

C8_Validation ==
  [][(mlast'.op \in {"InsertMenu", "Update"} /\ mlast'.validated)
       => IF Validate(mlast'.item).entries # {}
          THEN /\ mlast'.errMap = Validate(mlast'.item)
               /\ ~mlast'.errMap.isNil
               /\ mlast'.err = ErrMissingFields
               /\ ~mlast'.repoCalled
               /\ menu' = menu
          ELSE /\ mlast'.errMap.isNil
               /\ mlast'.repoCalled
               /\ mlast'.err = mlast'.repoErr]_vars

C8_Witness ==
  /\ mlast.op = "Update"
  /\ mlast.err = ErrMissingFields
  /\ Cardinality(mlast.errMap.entries) = 2
  /\ menu # {}

\* C10: RetrieveByID, Update and Delete with an id that is no integer return
\* ErrInvalidID and make no call to the repository; Update checks the id
\* before the fields, so with such an id and an invalid item it returns
\* ErrInvalidID and a nil map.
C10_InvalidID ==
  [][(mlast'.op \in {"RetrieveByID", "Update", "Delete"}
        /\ ~Atoi(mlast'.id).ok)
       => /\ mlast'.err = ErrInvalidID
          /\ ~mlast'.repoCalled
          /\ menu' = menu
          /\ mlast'.errMap.isNil
          /\ mlast'.result = ZeroMenuItem]_vars

C10_Witness ==
  /\ mlast.op = "Update"
  /\ mlast.err = ErrInvalidID
  /\ ~Validate(mlast.item).isNil
  /\ mlast.errMap.isNil

====
